---- MODULE Spec2Model ----
(***************************************************************************)
(* Model of SQLAIAgent (src/sql_ai_agent.py): the line scanner             *)
(* _extract_sql_from_response and the orchestration method query.          *)
(* Python strings are sequences of one-character strings, so that strip,   *)
(* startswith, upper, split and join are computed, not assumed.            *)
(***************************************************************************)
EXTENDS Integers, Sequences, FiniteSets, TLC

VARIABLES
    response,       \* argument of _extract_sql_from_response
    lines,          \* response.split('\n')
    i,              \* position of the for loop in lines (1-based)
    sql_lines,      \* collected lines
    in_sql_block,   \* bare-SQL mode flag
    in_code_block,  \* fenced-block mode flag
    xpc,            \* position inside _extract_sql_from_response
    extracted,      \* its return value (Optional[str])
    prior,          \* the previous extraction, when its output was fed back
    pc,             \* position inside query
    user_question,  \* argument of query
    agent_output,   \* response.get('output', '')
    sql_query,      \* local sql_query of query
    result,         \* the dict under construction / returned
    clock,          \* wall clock read by pd.Timestamp.now()
    agent_calls,    \* number of self.agent.invoke calls of this query call
    extract_calls,  \* number of _extract_sql_from_response calls
    exec_calls,     \* number of execute_raw_sql calls
    path,           \* the positions of query visited so far
    reply,          \* the last reply of a collaborator: what it returned or raised
    epc,            \* position inside execute_raw_sql
    conn_held,      \* connections checked out of self.engine and not yet returned
    cursor,         \* the result object of connection.execute
    frontend,       \* the front end that received the record, "none" before
    shown,          \* what that front end has put on the screen, in order
    query_history,  \* st.session_state.query_history
    fallback,       \* the fallback branch of the front end: "no", "reached" or "called"
    key_error,      \* TRUE once a consumer has indexed a key its record lacks
    cli_pc,         \* position of main() of cli.py
    agent_bound,    \* TRUE when the local name agent of main() is bound
    typed,          \* the line input() returned in this iteration, None if it raised
    user_input,     \* the local user_input of main()
    query_log,      \* the calls of agent.query made by main(), in order
    close_calls,    \* number of calls of agent.close_connection by main()
    turns,          \* number of times main() has prompted
    self_obj,       \* the attributes of the SQLAIAgent object
    calls           \* the locals of each of the concurrent calls of query

scan_vars == <<response, lines, i, sql_lines, in_sql_block, in_code_block, xpc, extracted>>
query_vars == <<pc, user_question, agent_output, sql_query, result, clock,
                agent_calls, extract_calls, exec_calls, path, reply>>
exec_vars == <<epc, conn_held, cursor>>
cli_vars == <<cli_pc, agent_bound, typed, user_input, query_log, close_calls, turns>>
front_vars == <<frontend, shown, query_history, fallback, key_error, cli_vars>>
conc_vars == <<self_obj, calls>>
vars == <<response, lines, i, sql_lines, in_sql_block, in_code_block, xpc, extracted,
          prior, pc, user_question, agent_output, sql_query, result, clock,
          agent_calls, extract_calls, exec_calls, path, reply, epc, conn_held, cursor,
          frontend, shown, query_history, fallback, key_error, self_obj, calls,
          cli_pc, agent_bound, typed, user_input, query_log, close_calls, turns>>

(***************************************************************************)
(* Bounds                                                                  *)
(***************************************************************************)
MaxLines == 4
MaxAgentLines == 2
MaxRows == 2
MaxCols == 2
MaxPhraseLines == 3
MaxFenceLines == 5
MaxHistory == 3
MaxTurns == 3

(***************************************************************************)
(* Optional values                                                         *)
(***************************************************************************)
None == [some |-> FALSE]
Some(v) == [some |-> TRUE, val |-> v]

\* replies of a collaborator: an exception with its message, or a frame
no_reply == [raised |-> FALSE, error |-> "", frame |-> None]
raised(e) == [raised |-> TRUE, error |-> e, frame |-> None]
returned(df) == [raised |-> FALSE, error |-> "", frame |-> Some(df)]

\* the attributes __init__ sets on the SQLAIAgent object
agent_attributes ==
    [a \in {"db_config", "azure_config", "llm", "engine", "sql_database", "toolkit", "agent"}
        |-> "set by __init__"]

(***************************************************************************)
(* Python str methods                                                      *)
(***************************************************************************)
\* the backquote character, which a TLA+ string literal cannot hold
bt == "BACKQUOTE"

Whitespace == {" ", "\t", "\n", "\r"}
LowerLetters == <<"a", "b", "c", "d", "e", "f", "g", "h", "i", "j", "k", "l", "m", "n", "o", "p", "q", "r", "s", "t", "u", "v", "w", "x", "y", "z">>
UpperLetters == <<"A", "B", "C", "D", "E", "F", "G", "H", "I", "J", "K", "L", "M", "N", "O", "P", "Q", "R", "S", "T", "U", "V", "W", "X", "Y", "Z">>
Digits == {"0", "1", "2", "3", "4", "5", "6", "7", "8", "9"}
Range(f) == {f[k] : k \in DOMAIN f}
AlnumChars == Range(LowerLetters) \cup Range(UpperLetters) \cup Digits

upper_char(c) ==
    IF c \in Range(LowerLetters)
    THEN UpperLetters[CHOOSE k \in 1..26 : LowerLetters[k] = c]
    ELSE c

upper(s) == [k \in 1..Len(s) |-> upper_char(s[k])]

lower_char(c) ==
    IF c \in Range(UpperLetters)
    THEN LowerLetters[CHOOSE k \in 1..26 : UpperLetters[k] = c]
    ELSE c

lower(s) == [k \in 1..Len(s) |-> lower_char(s[k])]

RECURSIVE lstrip(_)
lstrip(s) == IF s # <<>> /\ Head(s) \in Whitespace THEN lstrip(Tail(s)) ELSE s

RECURSIVE rstrip(_)
rstrip(s) ==
    IF s # <<>> /\ s[Len(s)] \in Whitespace THEN rstrip(SubSeq(s, 1, Len(s) - 1)) ELSE s

strip(s) == rstrip(lstrip(s))

startswith(s, p) == Len(s) >= Len(p) /\ SubSeq(s, 1, Len(p)) = p

endswith(s, p) == Len(s) >= Len(p) /\ SubSeq(s, Len(s) - Len(p) + 1, Len(s)) = p

\* sub in s
contains(s, sub) ==
    \E k \in 1..(Len(s) - Len(sub) + 1) : SubSeq(s, k, k + Len(sub) - 1) = sub

\* s.replace(c, '') for a one-character c
remove_char(s, c) == SelectSeq(s, LAMBDA ch : ch # c)

isalnum(s) == s # <<>> /\ \A k \in 1..Len(s) : s[k] \in AlnumChars

\* s.split('\n')
RECURSIVE split(_)
split(s) ==
    IF \A k \in 1..Len(s) : s[k] # "\n"
    THEN <<s>>
    ELSE LET n == CHOOSE k \in 1..Len(s) :
                      s[k] = "\n" /\ \A j \in 1..(k - 1) : s[j] # "\n"
         IN <<SubSeq(s, 1, n - 1)>> \o split(SubSeq(s, n + 1, Len(s)))

\* '\n'.join(ls)
RECURSIVE join(_)
join(ls) ==
    IF ls = <<>> THEN <<>>
    ELSE IF Len(ls) = 1 THEN ls[1]
    ELSE ls[1] \o <<"\n">> \o join(Tail(ls))

(***************************************************************************)
(* main() of cli.py before it has been entered                             *)
(***************************************************************************)
cli_not_started ==
    /\ cli_pc = "not started"
    /\ agent_bound = FALSE
    /\ typed = None
    /\ user_input = <<>>
    /\ query_log = <<>>
    /\ close_calls = 0
    /\ turns = 0

(***************************************************************************)
(* Literals of _extract_sql_from_response                                  *)
(***************************************************************************)
fence_sql_lower == <<bt, bt, bt, "s", "q", "l">>
fence_sql_upper == <<bt, bt, bt, "S", "Q", "L">>
fence_close == <<bt, bt, bt>>
comment_marker == <<"-", "-">>
semicolon == <<";">>

sql_keywords == <<
    <<"S", "E", "L", "E", "C", "T">>,
    <<"I", "N", "S", "E", "R", "T">>,
    <<"U", "P", "D", "A", "T", "E">>,
    <<"D", "E", "L", "E", "T", "E">>,
    <<"W", "I", "T", "H">>,
    <<"C", "R", "E", "A", "T", "E">>,
    <<"A", "L", "T", "E", "R">>,
    <<"D", "R", "O", "P">> >>

continuation_keywords == <<
    <<"F", "R", "O", "M">>,
    <<"W", "H", "E", "R", "E">>,
    <<"J", "O", "I", "N">>,
    <<"G", "R", "O", "U", "P", " ", "B", "Y">>,
    <<"O", "R", "D", "E", "R", " ", "B", "Y">>,
    <<"H", "A", "V", "I", "N", "G">>,
    <<"U", "N", "I", "O", "N">>,
    <<"L", "I", "M", "I", "T">> >>

sql_punctuation == {"(", ")", ",", "=", "<", ">", "'", "\""}

prefixes_to_remove == <<
    <<"H", "e", "r", "e", "'", "s", " ", "t", "h", "e", " ", "S", "Q", "L", " ", "q", "u", "e", "r", "y", ":">>,
    <<"S", "Q", "L", " ", "Q", "u", "e", "r", "y", ":">>,
    <<"Q", "u", "e", "r", "y", ":">>,
    <<"T", "h", "e", " ", "S", "Q", "L", " ", "q", "u", "e", "r", "y", " ", "i", "s", ":">>,
    <<"L", "e", "t", " ", "m", "e", " ", "r", "u", "n", " ", "t", "h", "i", "s", " ", "q", "u", "e", "r", "y", ":">> >>

(***************************************************************************)
(* The loop body of _extract_sql_from_response                             *)
(***************************************************************************)
is_sql_fence_opener(line_stripped) ==
    startswith(line_stripped, fence_sql_lower) \/ startswith(line_stripped, fence_sql_upper)

\* faulty variant of starts_with_sql_keyword: the keyword may be anywhere in the line
starts_with_sql_keyword_anywhere(line_stripped) ==
    \E k \in DOMAIN sql_keywords : contains(upper(line_stripped), sql_keywords[k])

\* any(line_stripped.upper().startswith(keyword) for keyword in sql_keywords)
starts_with_sql_keyword(line_stripped) ==
    \E k \in DOMAIN sql_keywords : startswith(upper(line_stripped), sql_keywords[k])

\* faulty variant of has_continuation_keyword: the line is not upper-cased
has_continuation_keyword_case_sensitive(line_stripped) ==
    \E k \in DOMAIN continuation_keywords :
        contains(line_stripped, continuation_keywords[k])

\* any(keyword in line_stripped.upper() for keyword in [...])
has_continuation_keyword(line_stripped) ==
    \E k \in DOMAIN continuation_keywords :
        contains(upper(line_stripped), continuation_keywords[k])

\* faulty variant of likely_not_sql: an alphanumeric line ends the collection
likely_not_sql_alnum(line_stripped) ==
    /\ line_stripped # <<>>
    /\ ~ \E k \in 1..Len(line_stripped) : line_stripped[k] \in sql_punctuation
    /\ isalnum(remove_char(remove_char(line_stripped, " "), "\t"))

\* the condition of the "Likely not SQL anymore" branch
likely_not_sql(line_stripped) ==
    /\ line_stripped # <<>>
    /\ ~ \E k \in 1..Len(line_stripped) : line_stripped[k] \in sql_punctuation
    /\ ~ isalnum(remove_char(remove_char(line_stripped, " "), "\t"))

\* faulty variant of scan_init: bare-SQL mode already on before the first line
scan_init_in_block == [sql_lines |-> <<>>, in_sql_block |-> TRUE, in_code_block |-> FALSE]

\* the locals before the loop
scan_init == [sql_lines |-> <<>>, in_sql_block |-> FALSE, in_code_block |-> FALSE]

\* faulty variant of on_closing_fence: the loop goes on after the closing fence
on_closing_fence_continue(keep) == [keep EXCEPT !.in_code_block = FALSE]

\* elif line_stripped == '```' and in_code_block: in_code_block = False; break
on_closing_fence(keep) == [keep EXCEPT !.in_code_block = FALSE, !.brk = TRUE]

\* One iteration: s holds sql_lines, in_sql_block, in_code_block; the result
\* adds brk, TRUE when the iteration leaves the loop with break.
loop_body(s, line) ==
    LET line_stripped == strip(line)
        keep == [sql_lines |-> s.sql_lines, in_sql_block |-> s.in_sql_block,
                 in_code_block |-> s.in_code_block, brk |-> FALSE]
        append == [keep EXCEPT !.sql_lines = Append(s.sql_lines, line)]
    IN IF is_sql_fence_opener(line_stripped)
       THEN [keep EXCEPT !.in_code_block = TRUE]
       ELSE IF line_stripped = fence_close /\ s.in_code_block
       THEN on_closing_fence(keep)
       ELSE IF s.in_code_block
       THEN append
       ELSE IF starts_with_sql_keyword(line_stripped)
       THEN [append EXCEPT !.in_sql_block = TRUE]
       ELSE IF s.in_sql_block
       THEN IF endswith(line_stripped, semicolon)
            THEN [append EXCEPT !.brk = TRUE]
            ELSE IF line_stripped = <<>> \/ startswith(line_stripped, comment_marker)
            THEN append
            ELSE IF has_continuation_keyword(line_stripped)
            THEN append
            ELSE IF likely_not_sql(line_stripped)
            THEN [keep EXCEPT !.brk = TRUE]
            ELSE append
       ELSE keep

(***************************************************************************)
(* The clean-up after the loop                                             *)
(***************************************************************************)
\* faulty variant of remove_prefixes: the remainder is not stripped again
RECURSIVE remove_prefixes_nostrip(_, _)
remove_prefixes_nostrip(q, k) ==
    IF k > Len(prefixes_to_remove) THEN q
    ELSE IF startswith(q, prefixes_to_remove[k])
    THEN remove_prefixes_nostrip(SubSeq(q, Len(prefixes_to_remove[k]) + 1, Len(q)), k + 1)
    ELSE remove_prefixes_nostrip(q, k + 1)

\* for prefix in prefixes_to_remove[k..]: if q.startswith(prefix): q = q[len(prefix):].strip()
RECURSIVE remove_prefixes(_, _)
remove_prefixes(q, k) ==
    IF k > Len(prefixes_to_remove) THEN q
    ELSE IF startswith(q, prefixes_to_remove[k])
    THEN remove_prefixes(strip(SubSeq(q, Len(prefixes_to_remove[k]) + 1, Len(q))), k + 1)
    ELSE remove_prefixes(q, k + 1)

\* faulty variant of ensure_semicolon: appends without looking at the last character
ensure_semicolon_always(q) == IF q # <<>> THEN rstrip(q) \o semicolon ELSE q

\* if sql_query and not sql_query.rstrip().endswith(';'): sql_query = sql_query.rstrip() + ';'
ensure_semicolon(q) ==
    IF q # <<>> /\ ~ endswith(rstrip(q), semicolon) THEN rstrip(q) \o semicolon ELSE q

\* faulty variant of clean_up: the narrative prefixes stay
clean_up_keep_prefix(collected) ==
    IF collected # <<>>
    THEN LET q == ensure_semicolon(strip(join(collected)))
         IN IF q # <<>> THEN Some(q) ELSE None
    ELSE None

\* everything after the loop: the value returned for the collected lines
clean_up(collected) ==
    IF collected # <<>>
    THEN LET q == ensure_semicolon(remove_prefixes(strip(join(collected)), 1))
         IN IF q # <<>> THEN Some(q) ELSE None
    ELSE None

(***************************************************************************)
(* The whole function for one argument                                     *)
(***************************************************************************)
\* the for loop from line k on: the lines collected when the loop is left
RECURSIVE scan_from(_, _, _)
scan_from(s, ls, k) ==
    IF k > Len(ls) THEN s.sql_lines
    ELSE LET t == loop_body(s, ls[k])
         IN IF t.brk THEN t.sql_lines ELSE scan_from(t, ls, k + 1)

(***************************************************************************)
(* Inputs                                                                  *)
(***************************************************************************)
LineSet == {
    <<"S", "E", "L", "E", "C", "T", " ", "1", ";">>,
    <<" ", "s", "e", "l", "e", "c", "t", " ", "a", " ">>,
    <<"F", "R", "O", "M", " ", "t">>,
    <<bt, bt, bt, "s", "q", "l">>,
    <<bt, bt, bt>>,
    <<"t", "o", " ", "d", "r", "o", "p", "!">>,
    <<>>,
    <<"Q", "u", "e", "r", "y", ":">>,
    <<"W", "i", "t", "h", " ", "i", "t", ".">>,
    <<"-", "-", " ", "c">>,
    <<"u", "s", "e", "r", "s">> }

\* sequences of pairwise different lines, at most n of them
LineSeqs(n) ==
    UNION { { ls \in [1..m -> LineSet] : \A a, b \in 1..m : a # b => ls[a] # ls[b] }
            : m \in 1..n }

\* an argument that is not a str (response.get('output', '') gave None)
non_str == <<"NoneType">>

\* only a str has the split method
is_str(v) == v # non_str

Inputs == { join(ls) : ls \in LineSeqs(MaxLines) } \cup {non_str}

(***************************************************************************)
(* _extract_sql_from_response, one loop iteration per step                 *)
(***************************************************************************)
\* faulty variant of handle_extract_error: the handler lets the exception out
handle_extract_error_reraise == [xpc |-> "raised", extracted |-> None]

\* except Exception: the error is logged and None returned
handle_extract_error == [xpc |-> "returned", extracted |-> None]

\* the locals after entry: the argument is split, or split raises
\* AttributeError and control is in the except clause
scan_entry(text) ==
    IF is_str(text)
    THEN [lines |-> split(text), xpc |-> "loop", extracted |-> None]
    ELSE [lines |-> <<>>, xpc |-> handle_extract_error.xpc,
          extracted |-> handle_extract_error.extracted]

\* the value _extract_sql_from_response returns for an argument
extract_sql_from_response(text) ==
    IF is_str(text) THEN clean_up(scan_from(scan_init, split(text), 1))
    ELSE handle_extract_error.extracted

\* entry: split the argument and initialise the locals
StartScan(text) ==
    /\ response' = text
    /\ lines' = scan_entry(text).lines
    /\ i' = 1
    /\ sql_lines' = scan_init.sql_lines
    /\ in_sql_block' = scan_init.in_sql_block
    /\ in_code_block' = scan_init.in_code_block
    /\ xpc' = scan_entry(text).xpc
    /\ extracted' = scan_entry(text).extracted

ScanLine ==
    /\ xpc = "loop"
    /\ i <= Len(lines)
    /\ LET s == loop_body([sql_lines |-> sql_lines, in_sql_block |-> in_sql_block,
                           in_code_block |-> in_code_block], lines[i])
       IN /\ sql_lines' = s.sql_lines
          /\ in_sql_block' = s.in_sql_block
          /\ in_code_block' = s.in_code_block
          /\ i' = i + 1
          /\ xpc' = IF s.brk \/ i = Len(lines) THEN "cleanup" ELSE "loop"
    /\ UNCHANGED <<response, lines, extracted, prior>>
    /\ UNCHANGED query_vars
    /\ UNCHANGED exec_vars
    /\ UNCHANGED front_vars
    /\ UNCHANGED conc_vars

CleanUp ==
    /\ xpc = "cleanup"
    /\ extracted' = clean_up(sql_lines)
    /\ xpc' = "returned"
    /\ UNCHANGED <<response, lines, i, sql_lines, in_sql_block, in_code_block, prior>>
    /\ UNCHANGED query_vars
    /\ UNCHANGED exec_vars
    /\ UNCHANGED front_vars
    /\ UNCHANGED conc_vars

\* the caller applies the function to its own output
Reapply ==
    /\ pc = "NO_CALL"
    /\ xpc = "returned"
    /\ extracted # None
    /\ prior = None
    /\ prior' = Some([input |-> response, output |-> extracted.val])
    /\ StartScan(extracted.val)
    /\ UNCHANGED query_vars
    /\ UNCHANGED exec_vars
    /\ UNCHANGED front_vars
    /\ UNCHANGED conc_vars

NoQuery ==
    /\ pc = "NO_CALL"
    /\ user_question = "q1"
    /\ agent_output = <<>>
    /\ sql_query = None
    /\ result = None
    /\ clock = 0
    /\ agent_calls = 0
    /\ extract_calls = 0
    /\ exec_calls = 0
    /\ path = <<>>
    /\ reply = no_reply
    /\ epc = "idle"
    /\ conn_held = 0
    /\ cursor = None
    /\ frontend = "none"
    /\ shown = <<>>
    /\ query_history = <<>>
    /\ fallback = "no"
    /\ key_error = FALSE
    /\ cli_not_started
    /\ self_obj = agent_attributes
    /\ calls = <<>>

InitExtract ==
    /\ response \in Inputs
    /\ lines = scan_entry(response).lines
    /\ i = 1
    /\ sql_lines = scan_init.sql_lines
    /\ in_sql_block = scan_init.in_sql_block
    /\ in_code_block = scan_init.in_code_block
    /\ xpc = scan_entry(response).xpc
    /\ extracted = scan_entry(response).extracted
    /\ prior = None
    /\ NoQuery

NextExtract == ScanLine \/ CleanUp \/ Reapply

SpecExtract == InitExtract /\ [][NextExtract]_vars

\* a second family of arguments: statements over several lines, with outer
\* whitespace, and the narrative prefixes; a line may occur more than once
PhraseSet == {
    <<"S", "E", "L", "E", "C", "T", " ", "a">>,
    <<" ", "s", "e", "l", "e", "c", "t", " ", "a", " ">>,
    <<"F", "R", "O", "M", " ", "t">>,
    <<"w", "h", "e", "r", "e", " ", "t", ".", "b", " ">>,
    <<"L", "I", "M", "I", "T", " ", "1">>,
    <<bt, bt, bt, "s", "q", "l">>,
    <<bt, bt, bt>>,
    <<"Q", "u", "e", "r", "y", ":">>,
    <<"S", "Q", "L", " ", "Q", "u", "e", "r", "y", ":", " ", "Q", "u", "e", "r", "y", ":", " ", "a">>,
    prefixes_to_remove[1],
    <<"S", "E", "L", "E", "C", "T", " ", "1", ";">> }

PhraseInputs == { join(ls) : ls \in UNION { [1..m -> PhraseSet] : m \in 1..MaxPhraseLines } }

InitPhrases ==
    /\ response \in PhraseInputs
    /\ lines = scan_entry(response).lines
    /\ i = 1
    /\ sql_lines = scan_init.sql_lines
    /\ in_sql_block = scan_init.in_sql_block
    /\ in_code_block = scan_init.in_code_block
    /\ xpc = scan_entry(response).xpc
    /\ extracted = scan_entry(response).extracted
    /\ prior = None
    /\ NoQuery

SpecPhrases == InitPhrases /\ [][NextExtract]_vars

\* a third family of arguments: fence lines in several spellings, a statement
\* and a word; a line may occur more than once
FenceSet == {
    <<bt, bt, bt, "s", "q", "l">>,
    <<bt, bt, bt, "S", "q", "l">>,
    <<bt, bt, bt, "s", "q", "l", "x">>,
    <<bt, bt, bt>>,
    <<"S", "E", "L", "E", "C", "T", " ", "1", ";">>,
    <<"u", "s", "e", "r", "s">> }

FenceInputs == { join(ls) : ls \in UNION { [1..m -> FenceSet] : m \in 1..MaxFenceLines } }

InitFences ==
    /\ response \in FenceInputs
    /\ lines = scan_entry(response).lines
    /\ i = 1
    /\ sql_lines = scan_init.sql_lines
    /\ in_sql_block = scan_init.in_sql_block
    /\ in_code_block = scan_init.in_code_block
    /\ xpc = scan_entry(response).xpc
    /\ extracted = scan_entry(response).extracted
    /\ prior = None
    /\ NoQuery

SpecFences == InitFences /\ [][NextExtract]_vars

(***************************************************************************)
(* Collaborators of query: the agent and the database                      *)
(***************************************************************************)
Questions == {"q1", "q2"}
AgentErrors == {"agent timed out", "authentication failed"}
ConnectErrors == {"connection refused"}
ExecErrors == {"relation does not exist"}

\* sqlalchemy.exc.ResourceClosedError, raised by fetchall on a result object
\* of a statement that returns no rows
no_rows_error == "This result object does not return rows"

\* what response.get('output', '') can be: texts of at most MaxAgentLines lines
AgentOutputs == { join(ls) : ls \in LineSeqs(MaxAgentLines) } \cup {non_str}

\* pandas.DataFrame: its row index and its number of columns
DataFrame(n, c) == [index |-> [k \in 1..n |-> k], columns |-> c]
len(df) == Len(df.index)
empty(df) == Len(df.index) = 0 \/ df.columns = 0
\* faulty variant of head: the whole frame is taken
head_all(df, n) == df

\* df.head(n)
head(df, n) ==
    [index |-> SubSeq(df.index, 1, IF n < Len(df.index) THEN n ELSE Len(df.index)),
     columns |-> df.columns]

\* data_df.head(10)
head_limit == 10

\* the frames execute_raw_sql can return
ExecRowCounts == (0..MaxRows) \cup {head_limit, head_limit + 1}
ExecFrames == { DataFrame(n, c) : n \in ExecRowCounts, c \in 0..MaxCols }

(***************************************************************************)
(* The dicts built by query                                                *)
(***************************************************************************)
\* faulty variant of failure_result: the failure record carries sql_query
failure_result_partial(q, e, now) ==
    [success |-> FALSE, user_question |-> q, error |-> e, timestamp |-> now,
     sql_query |-> None]

\* the dict of the outer except branch
failure_result(q, e, now) ==
    [success |-> FALSE, user_question |-> q, error |-> e, timestamp |-> now]

\* faulty variant of initial_result: the success record starts with an error field
initial_result_with_error(q, out, sql, now) ==
    [success |-> TRUE, user_question |-> q, agent_response |-> out, sql_query |-> sql,
     data |-> None, data_preview |-> None, row_count |-> 0, column_count |-> 0,
     error |-> None, timestamp |-> now]

\* "Initialize result structure"
initial_result(q, out, sql, now) ==
    [success |-> TRUE, user_question |-> q, agent_response |-> out, sql_query |-> sql,
     data |-> None, data_preview |-> None, row_count |-> 0, column_count |-> 0,
     timestamp |-> now]

\* faulty variant of with_data: column_count is not zeroed for an empty frame
with_data_raw_columns(res, df) ==
    [res EXCEPT !.data = Some(df),
                !.row_count = len(df),
                !.column_count = df.columns,
                !.data_preview = Some(IF ~ empty(df) THEN head(df, head_limit)
                                      ELSE DataFrame(0, 0))]

\* faulty variant of with_data: an empty frame is not stored
with_data_drop_empty(res, df) ==
    [res EXCEPT !.data = IF empty(df) THEN None ELSE Some(df),
                !.row_count = len(df),
                !.column_count = IF ~ empty(df) THEN df.columns ELSE 0,
                !.data_preview = Some(IF ~ empty(df) THEN head(df, head_limit)
                                      ELSE DataFrame(0, 0))]

\* "Add data information to result" and the preview
with_data(res, df) ==
    [res EXCEPT !.data = Some(df),
                !.row_count = len(df),
                !.column_count = IF ~ empty(df) THEN df.columns ELSE 0,
                !.data_preview = Some(IF ~ empty(df) THEN head(df, head_limit)
                                      ELSE DataFrame(0, 0))]

\* faulty variant of with_execution_error: the execution failure fails the outcome
with_execution_error_fatal(res, e) ==
    [res EXCEPT !.success = FALSE] @@ [data_execution_error |-> e]

\* the inner except branch
with_execution_error(res, e) == res @@ [data_execution_error |-> e]

\* faulty variant of truthy: the executor runs whatever was extracted
truthy_always(sql) == TRUE

\* if sql_query:
truthy(sql) == sql # None /\ sql.val # <<>>

(***************************************************************************)
(* query, one step per position                                            *)
(***************************************************************************)
Terminal == {"AGENT_FAILED", "DONE"}

Goto(p) == pc' = p /\ path' = Append(path, p)

\* self.agent.invoke is issued
CallAgent ==
    /\ pc = "START"
    /\ agent_calls' = agent_calls + 1
    /\ Goto("AGENT_CALLED")
    /\ UNCHANGED <<user_question, agent_output, sql_query, result, clock,
                   extract_calls, exec_calls, prior, reply>>
    /\ UNCHANGED scan_vars
    /\ UNCHANGED exec_vars
    /\ UNCHANGED front_vars
    /\ UNCHANGED conc_vars

\* the agent call raises: the outer except branch builds and returns the record
AgentRaises ==
    /\ pc = "AGENT_CALLED"
    /\ \E e \in AgentErrors :
           /\ reply' = raised(e)
           /\ result' = failure_result(user_question, e, clock + 1)
    /\ clock' = clock + 1
    /\ Goto("AGENT_FAILED")
    /\ UNCHANGED <<user_question, agent_output, sql_query,
                   agent_calls, extract_calls, exec_calls, prior>>
    /\ UNCHANGED scan_vars
    /\ UNCHANGED exec_vars
    /\ UNCHANGED front_vars
    /\ UNCHANGED conc_vars

\* the agent call returns and agent_output is read from the response
AgentReturns ==
    /\ pc = "AGENT_CALLED"
    /\ \E out \in AgentOutputs :
           /\ reply' = no_reply
           /\ agent_output' = out
    /\ clock' = clock + 1
    /\ Goto("AGENT_OK")
    /\ UNCHANGED <<user_question, sql_query, result,
                   agent_calls, extract_calls, exec_calls, prior>>
    /\ UNCHANGED scan_vars
    /\ UNCHANGED exec_vars
    /\ UNCHANGED front_vars
    /\ UNCHANGED conc_vars

\* self._extract_sql_from_response(agent_output) is entered
CallExtract ==
    /\ pc = "AGENT_OK"
    /\ StartScan(agent_output)
    /\ extract_calls' = extract_calls + 1
    /\ Goto("EXTRACTING")
    /\ UNCHANGED <<user_question, agent_output, sql_query, result, clock,
                   agent_calls, exec_calls, prior, reply>>
    /\ UNCHANGED exec_vars
    /\ UNCHANGED front_vars
    /\ UNCHANGED conc_vars

\* the extraction returns and the result dict is initialised; an exception
\* out of the extraction would be caught by the outer except of query
ExtractReturns ==
    /\ pc = "EXTRACTING"
    /\ xpc \in {"returned", "raised"}
    /\ IF xpc = "returned"
       THEN /\ sql_query' = extracted
            /\ result' = initial_result(user_question, agent_output, extracted, clock)
            /\ Goto("EXTRACTED")
       ELSE /\ sql_query' = sql_query
            /\ result' = failure_result(user_question, "AttributeError", clock)
            /\ Goto("AGENT_FAILED")
    /\ UNCHANGED <<user_question, agent_output, clock,
                   agent_calls, extract_calls, exec_calls, prior, reply>>
    /\ UNCHANGED scan_vars
    /\ UNCHANGED exec_vars
    /\ UNCHANGED front_vars
    /\ UNCHANGED conc_vars

\* if sql_query:
Branch ==
    /\ pc = "EXTRACTED"
    /\ IF truthy(sql_query) THEN Goto("SQL_FOUND") ELSE Goto("SQL_ABSENT")
    /\ UNCHANGED <<user_question, agent_output, sql_query, result, clock,
                   agent_calls, extract_calls, exec_calls, prior, reply>>
    /\ UNCHANGED scan_vars
    /\ UNCHANGED exec_vars
    /\ UNCHANGED front_vars
    /\ UNCHANGED conc_vars

(***************************************************************************)
(* execute_raw_sql, one step per statement                                 *)
(***************************************************************************)
\* the result objects connection.execute can return: one that returns rows
\* (a SELECT), or one without a result set (DDL, DML)
RowCursor(df) == [returns_rows |-> TRUE, frame |-> Some(df)]
NoRowsCursor == [returns_rows |-> FALSE, frame |-> None]
Cursors == { RowCursor(df) : df \in ExecFrames } \cup {NoRowsCursor}

\* positions between __enter__ and __exit__ of the with statement
InsideWith == {"connected", "executed", "exit_return", "exit_raise"}

\* faulty variant of released: the connection is returned only on the normal path
released_on_return_only(held, at) == IF at = "exit_return" THEN held - 1 ELSE held

\* __exit__ of the with statement closes the connection on both paths
released(held, at) == held - 1

\* pd.DataFrame(result.fetchall(), columns=result.keys())
fetch_frame(c) == IF c.returns_rows THEN returned(c.frame.val) ELSE raised(no_rows_error)

QueryFrame ==
    UNCHANGED <<pc, path, user_question, agent_output, sql_query, result, clock,
                agent_calls, extract_calls, exec_calls, prior>>

\* with self.engine.connect() as connection: the connection is checked out
Connect ==
    /\ pc = "SQL_FOUND"
    /\ epc = "idle"
    /\ conn_held' = conn_held + 1
    /\ epc' = "connected"
    /\ UNCHANGED <<cursor, reply>>
    /\ QueryFrame
    /\ UNCHANGED scan_vars
    /\ UNCHANGED front_vars
    /\ UNCHANGED conc_vars

\* self.engine.connect() raises: no connection was checked out
ConnectRaises ==
    /\ pc = "SQL_FOUND"
    /\ epc = "idle"
    /\ \E e \in ConnectErrors : reply' = raised(e)
    /\ epc' = "raised"
    /\ UNCHANGED <<cursor, conn_held>>
    /\ QueryFrame
    /\ UNCHANGED scan_vars
    /\ UNCHANGED front_vars
    /\ UNCHANGED conc_vars

\* result = connection.execute(text(sql_query))
RunStatement ==
    /\ epc = "connected"
    /\ \E c \in Cursors : cursor' = Some(c)
    /\ epc' = "executed"
    /\ UNCHANGED <<conn_held, reply>>
    /\ QueryFrame
    /\ UNCHANGED scan_vars
    /\ UNCHANGED front_vars
    /\ UNCHANGED conc_vars

\* connection.execute raises
RunStatementRaises ==
    /\ epc = "connected"
    /\ \E e \in ExecErrors : reply' = raised(e)
    /\ epc' = "exit_raise"
    /\ UNCHANGED <<conn_held, cursor>>
    /\ QueryFrame
    /\ UNCHANGED scan_vars
    /\ UNCHANGED front_vars
    /\ UNCHANGED conc_vars

\* df = pd.DataFrame(result.fetchall(), columns=result.keys())
FetchAll ==
    /\ epc = "executed"
    /\ reply' = fetch_frame(cursor.val)
    /\ epc' = IF fetch_frame(cursor.val).raised THEN "exit_raise" ELSE "exit_return"
    /\ UNCHANGED <<conn_held, cursor>>
    /\ QueryFrame
    /\ UNCHANGED scan_vars
    /\ UNCHANGED front_vars
    /\ UNCHANGED conc_vars

\* the with block is left, by return df or by the exception
ExitWith ==
    /\ epc \in {"exit_return", "exit_raise"}
    /\ conn_held' = released(conn_held, epc)
    /\ epc' = IF epc = "exit_return" THEN "returned" ELSE "raised"
    /\ UNCHANGED <<cursor, reply>>
    /\ QueryFrame
    /\ UNCHANGED scan_vars
    /\ UNCHANGED front_vars
    /\ UNCHANGED conc_vars

\* execute_raw_sql returns a frame
ExecuteReturns ==
    /\ pc = "SQL_FOUND"
    /\ epc = "returned"
    /\ exec_calls' = exec_calls + 1
    /\ result' = with_data(result, reply.frame.val)
    /\ clock' = clock + 1
    /\ epc' = "idle"
    /\ Goto("EXECUTED")
    /\ UNCHANGED <<user_question, agent_output, sql_query,
                   agent_calls, extract_calls, prior, reply, conn_held, cursor>>
    /\ UNCHANGED scan_vars
    /\ UNCHANGED front_vars
    /\ UNCHANGED conc_vars

\* execute_raw_sql raises: the error is logged and raised again
ExecuteRaises ==
    /\ pc = "SQL_FOUND"
    /\ epc = "raised"
    /\ exec_calls' = exec_calls + 1
    /\ result' = with_execution_error(result, reply.error)
    /\ clock' = clock + 1
    /\ epc' = "idle"
    /\ Goto("EXEC_FAILED")
    /\ UNCHANGED <<user_question, agent_output, sql_query,
                   agent_calls, extract_calls, prior, reply, conn_held, cursor>>
    /\ UNCHANGED scan_vars
    /\ UNCHANGED front_vars
    /\ UNCHANGED conc_vars

\* return result
Return ==
    /\ pc \in {"SQL_ABSENT", "EXECUTED", "EXEC_FAILED"}
    /\ Goto("DONE")
    /\ UNCHANGED <<user_question, agent_output, sql_query, result, clock,
                   agent_calls, extract_calls, exec_calls, prior, reply>>
    /\ UNCHANGED scan_vars
    /\ UNCHANGED exec_vars
    /\ UNCHANGED front_vars
    /\ UNCHANGED conc_vars

(***************************************************************************)
(* The front ends: what each puts on the screen for a record               *)
(***************************************************************************)
Item(w, v) == [what |-> w, value |-> v]

\* answers the user can type at the (y/n) prompt of the CLI
Answers == {"y", "n"}

\* what the front end's own call of agent.execute_raw_sql can give
FallbackReplies ==
    { returned(DataFrame(n, 1)) : n \in 0..1 } \cup { raised(e) : e \in ExecErrors }

\* result.get('sql_query') as a condition, then the display of the SQL
sql_items(r) ==
    IF truthy(r.sql_query) THEN <<Item("sql_query", r.sql_query.val)>> ELSE <<>>

\* result.get('data_execution_error') as a condition, then the note
note_items(r) ==
    IF "data_execution_error" \in DOMAIN r /\ r.data_execution_error # ""
    THEN <<Item("data_execution_error", r.data_execution_error)>> ELSE <<>>

\* the rows of a frame, or the sentence that there are none
frame_items(df) ==
    IF ~ empty(df) THEN <<Item("data", df)>> ELSE <<Item("no_data", "")>>

\* the fallback of both front ends: the SQL is executed again and shown
fallback_items(fb) ==
    IF fb.raised THEN <<Item("fallback_error", fb.error)>> ELSE frame_items(fb.frame.val)

\* cli.py, "Display results"
cli_display(r, answer, fb) ==
    IF r.success
    THEN <<Item("status", "SUCCESS"), Item("agent_response", r.agent_response)>>
         \o sql_items(r)
         \o (IF r.data # None
             THEN <<Item("summary", <<r.row_count, r.column_count>>)>>
                  \o frame_items(r.data.val)
             ELSE IF truthy(r.sql_query) /\ answer = "y" THEN fallback_items(fb)
             ELSE <<>>)
         \o note_items(r)
    ELSE <<Item("status", "FAILED"), Item("error", r.error)>>

\* faulty variant of streamlit_display: the response is shown with the metrics only
streamlit_display_response_with_data(r, fb) ==
    IF r.success
    THEN <<Item("status", "SUCCESS")>>
         \o (IF r.data # None
             THEN <<Item("summary", <<r.row_count, r.column_count>>),
                    Item("agent_response", r.agent_response)>>
             ELSE <<>>)
         \o sql_items(r)
         \o (IF r.data # None THEN frame_items(r.data.val)
             ELSE IF truthy(r.sql_query) THEN fallback_items(fb)
             ELSE <<>>)
         \o note_items(r)
    ELSE <<Item("status", "FAILED"), Item("error", r.error)>>

\* streamlit_app.py, execute_query from "Display results" on
streamlit_display(r, fb) ==
    IF r.success
    THEN <<Item("status", "SUCCESS")>>
         \o (IF r.data # None
             THEN <<Item("summary", <<r.row_count, r.column_count>>)>>
             ELSE <<>>)
         \o <<Item("agent_response", r.agent_response)>>
         \o sql_items(r)
         \o (IF r.data # None THEN frame_items(r.data.val)
             ELSE IF truthy(r.sql_query) THEN fallback_items(fb)
             ELSE <<>>)
         \o note_items(r)
    ELSE <<Item("status", "FAILED"), Item("error", r.error)>>

\* faulty variant of takes_fallback: data is not looked at
takes_fallback_with_sql(r) == r.success /\ truthy(r.sql_query)

\* the elif after `if result.get('data') is not None:` in the success branch
takes_fallback(r) == r.success /\ r.data = None /\ truthy(r.sql_query)

DisplayFrame ==
    UNCHANGED <<pc, path, user_question, agent_output, sql_query, result, clock,
                agent_calls, extract_calls, prior, scan_vars, exec_vars, conc_vars,
                cli_vars>>

\* the CLI loop receives the record of agent.query and prints it; in the
\* fallback branch it asks, and on "y" calls agent.execute_raw_sql
CliDisplay ==
    /\ pc \in Terminal
    /\ frontend = "none"
    /\ frontend' = "cli"
    /\ \E answer \in Answers, fb \in FallbackReplies :
           /\ shown' = cli_display(result, answer, fb)
           /\ IF takes_fallback(result) /\ answer = "y"
              THEN /\ fallback' = "called"
                   /\ exec_calls' = exec_calls + 1
                   /\ reply' = fb
              ELSE /\ fallback' = IF takes_fallback(result) THEN "reached" ELSE "no"
                   /\ UNCHANGED <<exec_calls, reply>>
    /\ UNCHANGED <<query_history, key_error>>
    /\ DisplayFrame

\* execute_query receives the record, stores it in the history and shows it;
\* in the fallback branch it calls agent.execute_raw_sql
StreamlitDisplay ==
    /\ pc \in Terminal
    /\ frontend = "none"
    /\ frontend' = "streamlit"
    /\ query_history' = Append(query_history, result)
    /\ \E fb \in FallbackReplies :
           /\ shown' = streamlit_display(result, fb)
           /\ IF takes_fallback(result)
              THEN /\ fallback' = "called"
                   /\ exec_calls' = exec_calls + 1
                   /\ reply' = fb
              ELSE /\ fallback' = "no"
                   /\ UNCHANGED <<exec_calls, reply>>
    /\ UNCHANGED key_error
    /\ DisplayFrame

Init ==
    /\ pc = "START"
    /\ user_question \in Questions
    /\ agent_output = <<>>
    /\ sql_query = None
    /\ result = None
    /\ clock = 0
    /\ agent_calls = 0
    /\ extract_calls = 0
    /\ exec_calls = 0
    /\ path = <<"START">>
    /\ reply = no_reply
    /\ epc = "idle"
    /\ conn_held = 0
    /\ cursor = None
    /\ frontend = "none"
    /\ shown = <<>>
    /\ query_history = <<>>
    /\ fallback = "no"
    /\ key_error = FALSE
    /\ cli_not_started
    /\ self_obj = agent_attributes
    /\ calls = <<>>
    /\ response = <<>>
    /\ lines = <<>>
    /\ i = 1
    /\ sql_lines = <<>>
    /\ in_sql_block = FALSE
    /\ in_code_block = FALSE
    /\ xpc = "idle"
    /\ extracted = None
    /\ prior = None

Next ==
    \/ CallAgent
    \/ AgentRaises
    \/ AgentReturns
    \/ CallExtract
    \/ ScanLine
    \/ CleanUp
    \/ ExtractReturns
    \/ Branch
    \/ Connect
    \/ ConnectRaises
    \/ RunStatement
    \/ RunStatementRaises
    \/ FetchAll
    \/ ExitWith
    \/ ExecuteReturns
    \/ ExecuteRaises
    \/ Return

Spec == Init /\ [][Next]_vars

\* query together with the front end that called it
NextFront == Next \/ CliDisplay \/ StreamlitDisplay

SpecFront == Init /\ [][NextFront]_vars

\* every step of query is sequential code, and both blocking calls return or
\* raise (timeout=60 and max_iterations=5 bound the agent)
FairSpec == Spec /\ WF_vars(Next)

(***************************************************************************)
(* Concurrent calls of query on one SQLAIAgent                             *)
(***************************************************************************)
Callers == {"caller1", "caller2"}

\* what the agent answers in the concurrent runs: a statement, a word, no str
ConcurrentOutputs ==
    { <<"S", "E", "L", "E", "C", "T", " ", "1", ";">>, <<"u", "s", "e", "r", "s">>, non_str }

ConcurrentFrames == { DataFrame(n, 1) : n \in 0..1 }

\* the locals of a call of query that has just been entered
new_call(q) ==
    [pc |-> "START", user_question |-> q, agent_output |-> <<>>, sql_query |-> None,
     result |-> None, reply |-> no_reply, read_clock |-> 0]

\* faulty variant of bind_sql_query: the extracted SQL is also kept on the object
bind_sql_query_on_self(st, c, sql) ==
    [self_obj |-> [a \in DOMAIN st.self_obj \cup {"last_sql_query"} |->
                      IF a = "last_sql_query" THEN sql ELSE st.self_obj[a]],
     calls |-> [st.calls EXCEPT ![c].sql_query = sql]]

\* sql_query = self._extract_sql_from_response(agent_output): a local of the call
bind_sql_query(st, c, sql) ==
    [self_obj |-> st.self_obj, calls |-> [st.calls EXCEPT ![c].sql_query = sql]]

ConcFrame ==
    UNCHANGED <<pc, path, user_question, agent_output, sql_query, result,
                agent_calls, extract_calls, exec_calls, reply, prior,
                scan_vars, exec_vars, front_vars>>

ConcCallAgent(c) ==
    /\ calls[c].pc = "START"
    /\ calls' = [calls EXCEPT ![c].pc = "AGENT_CALLED"]
    /\ UNCHANGED <<self_obj, clock>>
    /\ ConcFrame

ConcAgentRaises(c) ==
    /\ calls[c].pc = "AGENT_CALLED"
    /\ \E e \in AgentErrors :
           calls' = [calls EXCEPT ![c].pc = "AGENT_FAILED",
                                  ![c].reply = raised(e),
                                  ![c].read_clock = clock + 1,
                                  ![c].result =
                                      failure_result(calls[c].user_question, e, clock + 1)]
    /\ clock' = clock + 1
    /\ UNCHANGED self_obj
    /\ ConcFrame

ConcAgentReturns(c) ==
    /\ calls[c].pc = "AGENT_CALLED"
    /\ \E out \in ConcurrentOutputs :
           calls' = [calls EXCEPT ![c].pc = "AGENT_OK", ![c].agent_output = out]
    /\ clock' = clock + 1
    /\ UNCHANGED self_obj
    /\ ConcFrame

\* the extraction, the initial result dict and the test of sql_query
ConcExtract(c) ==
    /\ calls[c].pc = "AGENT_OK"
    /\ LET st == bind_sql_query([self_obj |-> self_obj, calls |-> calls], c,
                                extract_sql_from_response(calls[c].agent_output))
           sql == st.calls[c].sql_query
       IN /\ self_obj' = st.self_obj
          /\ calls' = [st.calls EXCEPT
                 ![c].result = initial_result(calls[c].user_question,
                                              calls[c].agent_output, sql, clock),
                 ![c].read_clock = clock,
                 ![c].pc = IF truthy(sql) THEN "SQL_FOUND" ELSE "DONE"]
    /\ UNCHANGED clock
    /\ ConcFrame

ConcExecuteReturns(c) ==
    /\ calls[c].pc = "SQL_FOUND"
    /\ \E df \in ConcurrentFrames :
           calls' = [calls EXCEPT ![c].pc = "DONE",
                                  ![c].reply = returned(df),
                                  ![c].result = with_data(calls[c].result, df)]
    /\ clock' = clock + 1
    /\ UNCHANGED self_obj
    /\ ConcFrame

ConcExecuteRaises(c) ==
    /\ calls[c].pc = "SQL_FOUND"
    /\ \E e \in ExecErrors :
           calls' = [calls EXCEPT ![c].pc = "DONE",
                                  ![c].reply = raised(e),
                                  ![c].result = with_execution_error(calls[c].result, e)]
    /\ clock' = clock + 1
    /\ UNCHANGED self_obj
    /\ ConcFrame

InitConcurrent ==
    /\ response = <<>>
    /\ lines = <<>>
    /\ i = 1
    /\ sql_lines = <<>>
    /\ in_sql_block = FALSE
    /\ in_code_block = FALSE
    /\ xpc = "idle"
    /\ extracted = None
    /\ prior = None
    /\ pc = "NO_CALL"
    /\ user_question = "q1"
    /\ agent_output = <<>>
    /\ sql_query = None
    /\ result = None
    /\ clock = 0
    /\ agent_calls = 0
    /\ extract_calls = 0
    /\ exec_calls = 0
    /\ path = <<>>
    /\ reply = no_reply
    /\ epc = "idle"
    /\ conn_held = 0
    /\ cursor = None
    /\ frontend = "none"
    /\ shown = <<>>
    /\ query_history = <<>>
    /\ fallback = "no"
    /\ key_error = FALSE
    /\ cli_not_started
    /\ self_obj = agent_attributes
    /\ calls \in { [c \in Callers |-> new_call(qs[c])] : qs \in [Callers -> Questions] }

NextConcurrent ==
    \E c \in Callers :
        \/ ConcCallAgent(c)
        \/ ConcAgentRaises(c)
        \/ ConcAgentReturns(c)
        \/ ConcExtract(c)
        \/ ConcExecuteReturns(c)
        \/ ConcExecuteRaises(c)

SpecConcurrent == InitConcurrent /\ [][NextConcurrent]_vars

(***************************************************************************)
(* A session: questions asked one after the other through the consumers    *)
(* of the record, with the Streamlit history                               *)
(***************************************************************************)
\* every record query can return for a question at an instant
QueryOutcomes(q, now) ==
    { failure_result(q, e, now) : e \in AgentErrors }
    \cup UNION { LET sql == extract_sql_from_response(out)
                     base == initial_result(q, out, sql, now)
                 IN IF truthy(sql)
                    THEN { with_data(base, df) : df \in ConcurrentFrames }
                         \cup { with_execution_error(base, e) :
                                    e \in ExecErrors \cup ConnectErrors \cup {no_rows_error} }
                    ELSE {base}
                 : out \in ConcurrentOutputs }

\* result.get(k) for a key whose value is a str or a frame when present
has_value(r, k) == k \in DOMAIN r /\ r[k] # None
has_text(r, k) == k \in DOMAIN r /\ r[k] # ""

\* the keys the CLI loop and execute_query subscript, branch by branch
display_keys(r) ==
    {"success"}
    \cup (IF r.success
          THEN {"agent_response"}
               \cup (IF has_value(r, "sql_query") /\ truthy(r.sql_query)
                     THEN {"sql_query"} ELSE {})
               \cup (IF has_value(r, "data") THEN {"data"} ELSE {})
               \cup (IF has_text(r, "data_execution_error")
                     THEN {"data_execution_error"} ELSE {})
          ELSE {})

\* the keys test_agent subscripts
test_agent_keys(r) ==
    {"success"} \cup (IF r.success THEN {"agent_response", "sql_query"} ELSE {"error"})

\* faulty variant of history_keys: the response is read for every entry
history_keys_always_response(r) ==
    {"user_question", "success", "timestamp", "agent_response"}
    \cup (IF r.success /\ has_value(r, "sql_query") /\ truthy(r.sql_query)
          THEN {"sql_query"} ELSE {})

\* the keys display_query_history subscripts for one entry
history_keys(r) ==
    {"user_question", "success", "timestamp"}
    \cup (IF r.success
          THEN {"agent_response"}
               \cup (IF has_value(r, "sql_query") /\ truthy(r.sql_query)
                     THEN {"sql_query"} ELSE {})
          ELSE {})

\* a subscript of a key the dict lacks raises KeyError
raises_key_error(keys, r) == ~ (keys \subseteq DOMAIN r)

SessionFrame ==
    UNCHANGED <<pc, path, agent_output, sql_query, agent_calls, extract_calls,
                exec_calls, reply, prior, shown, fallback,
                scan_vars, exec_vars, conc_vars, cli_vars>>

\* the keys consumer f subscripts in the record it receives
consumer_keys(f, r) == IF f = "test_agent" THEN test_agent_keys(r) ELSE display_keys(r)

\* one question through consumer f; Streamlit also stores the record
Ask(f) ==
    /\ clock < MaxHistory
    /\ \E q \in Questions : \E r \in QueryOutcomes(q, clock + 1) :
           /\ user_question' = q
           /\ result' = r
           /\ key_error' = (key_error \/ raises_key_error(consumer_keys(f, r), r))
           /\ query_history' = IF f = "streamlit" THEN Append(query_history, r)
                                ELSE query_history
    /\ clock' = clock + 1
    /\ frontend' = f
    /\ SessionFrame

CliAsk == Ask("cli")
StreamlitExecuteQuery == Ask("streamlit")
TestAgentAsk == Ask("test_agent")

\* the Clear History button
ClearHistory ==
    /\ query_history # <<>>
    /\ query_history' = <<>>
    /\ UNCHANGED <<user_question, result, clock, frontend, key_error>>
    /\ SessionFrame

\* display_query_history renders every stored entry
DisplayQueryHistory ==
    /\ query_history # <<>>
    /\ frontend' = "history"
    /\ key_error' = (key_error \/ \E k \in DOMAIN query_history :
                                      raises_key_error(history_keys(query_history[k]),
                                                       query_history[k]))
    /\ UNCHANGED <<user_question, result, clock, query_history>>
    /\ SessionFrame

InitSession ==
    /\ response = <<>>
    /\ lines = <<>>
    /\ i = 1
    /\ sql_lines = <<>>
    /\ in_sql_block = FALSE
    /\ in_code_block = FALSE
    /\ xpc = "idle"
    /\ extracted = None
    /\ prior = None
    /\ NoQuery

NextSession ==
    \/ CliAsk
    \/ StreamlitExecuteQuery
    \/ TestAgentAsk
    \/ ClearHistory
    \/ DisplayQueryHistory

SpecSession == InitSession /\ [][NextSession]_vars

(***************************************************************************)
(* The command-line loop: main() of cli.py                                 *)
(***************************************************************************)
exit_commands == { <<"q", "u", "i", "t">>, <<"e", "x", "i", "t">>, <<"q">> }
help_command == <<"h", "e", "l", "p">>

\* the lines a user can type at the prompt
TypedLines ==
    { <<>>, <<" ", " ">>,
      <<"q", "u", "i", "t">>, <<"E", "X", "I", "T">>, <<" ", "q", " ">>,
      <<"H", "e", "l", "p">>,
      <<"Q", "?">>, <<" ", "h", "i", "\n">> }

\* faulty variant of is_exit_command: the comparison is case-sensitive
is_exit_command_case_sensitive(s) == s \in exit_commands

\* user_input.lower() in ['quit', 'exit', 'q']
is_exit_command(s) == lower(s) \in exit_commands

\* user_input.lower() == 'help'
is_help_command(s) == lower(s) = help_command

\* what the loop does with a line: "break", "continue" or "query"
dispatch(s) ==
    IF is_exit_command(s) THEN "break"
    ELSE IF is_help_command(s) THEN "continue"
    ELSE IF s = <<>> THEN "continue"
    ELSE "query"

CliFrame ==
    UNCHANGED <<prior, scan_vars, query_vars, exec_vars, conc_vars,
                frontend, shown, query_history, fallback, key_error>>

\* agent = SQLAIAgent() returns and the table names are listed
Construct ==
    /\ cli_pc = "construct"
    /\ cli_pc' = "prompt"
    /\ agent_bound' = TRUE
    /\ UNCHANGED <<typed, user_input, query_log, close_calls, turns>>
    /\ CliFrame

\* SQLAIAgent() raises: the outer handler prints, calls sys.exit(1), and
\* the finally clause runs with the name agent unbound
ConstructRaises ==
    /\ cli_pc = "construct"
    /\ cli_pc' = "finally"
    /\ UNCHANGED <<agent_bound, typed, user_input, query_log, close_calls, turns>>
    /\ CliFrame

\* input() returns a line; the line is stripped and dispatched, and for a
\* question agent.query is called
ReadInput ==
    /\ cli_pc = "prompt"
    /\ turns < MaxTurns
    /\ turns' = turns + 1
    /\ \E line \in TypedLines :
          /\ typed' = Some(line)
          /\ user_input' = strip(line)
          /\ cli_pc' = CASE dispatch(strip(line)) = "break" -> "finally"
                         [] dispatch(strip(line)) = "continue" -> "prompt"
                         [] OTHER -> "processing"
          /\ query_log' = IF dispatch(strip(line)) = "query"
                          THEN Append(query_log, [typed |-> line, user_input |-> strip(line),
                                                  outcome |-> "pending"])
                          ELSE query_log
    /\ UNCHANGED <<agent_bound, close_calls>>
    /\ CliFrame

\* input() raises an Exception (EOFError): the handler prints and continues
InputRaises ==
    /\ cli_pc = "prompt"
    /\ turns < MaxTurns
    /\ turns' = turns + 1
    /\ typed' = None
    /\ UNCHANGED <<cli_pc, agent_bound, user_input, query_log, close_calls>>
    /\ CliFrame

\* the rest of the iteration after agent.query was called: it completes,
\* raises an Exception (continue) or is interrupted from the keyboard (break)
Process ==
    /\ cli_pc = "processing"
    /\ \E outcome \in {"completed", "Exception", "KeyboardInterrupt"} :
          /\ query_log' = [query_log EXCEPT ![Len(query_log)].outcome = outcome]
          /\ cli_pc' = IF outcome = "KeyboardInterrupt" THEN "finally" ELSE "prompt"
    /\ UNCHANGED <<agent_bound, typed, user_input, close_calls, turns>>
    /\ CliFrame

\* Ctrl-C at the prompt: the handler prints and breaks
PromptInterrupted ==
    /\ cli_pc = "prompt"
    /\ cli_pc' = "finally"
    /\ UNCHANGED <<agent_bound, typed, user_input, query_log, close_calls, turns>>
    /\ CliFrame

\* the finally clause: close_connection when the name agent is bound
Finally ==
    /\ cli_pc = "finally"
    /\ cli_pc' = "exited"
    /\ close_calls' = IF agent_bound THEN close_calls + 1 ELSE close_calls
    /\ UNCHANGED <<agent_bound, typed, user_input, query_log, turns>>
    /\ CliFrame

InitCli ==
    /\ response = <<>>
    /\ lines = <<>>
    /\ i = 1
    /\ sql_lines = <<>>
    /\ in_sql_block = FALSE
    /\ in_code_block = FALSE
    /\ xpc = "idle"
    /\ extracted = None
    /\ prior = None
    /\ pc = "NO_CALL"
    /\ user_question = "q1"
    /\ agent_output = <<>>
    /\ sql_query = None
    /\ result = None
    /\ clock = 0
    /\ agent_calls = 0
    /\ extract_calls = 0
    /\ exec_calls = 0
    /\ path = <<>>
    /\ reply = no_reply
    /\ epc = "idle"
    /\ conn_held = 0
    /\ cursor = None
    /\ frontend = "none"
    /\ shown = <<>>
    /\ query_history = <<>>
    /\ fallback = "no"
    /\ key_error = FALSE
    /\ self_obj = agent_attributes
    /\ calls = <<>>
    /\ cli_pc = "construct"
    /\ agent_bound = FALSE
    /\ typed = None
    /\ user_input = <<>>
    /\ query_log = <<>>
    /\ close_calls = 0
    /\ turns = 0

NextCli ==
    \/ Construct
    \/ ConstructRaises
    \/ ReadInput
    \/ InputRaises
    \/ Process
    \/ PromptInterrupted
    \/ Finally

SpecCli == InitCli /\ [][NextCli]_vars

(***************************************************************************)
(* Vocabulary of the properties                                            *)
(***************************************************************************)
IsOpenerLine(l) == is_sql_fence_opener(strip(l))
IsKeywordLine(l) == starts_with_sql_keyword(strip(l))
IsClosingLine(l) == strip(l) = fence_close
HasOpenerLine(text) == \E k \in DOMAIN split(text) : IsOpenerLine(split(text)[k])
HasKeywordLine(text) == \E k \in DOMAIN split(text) : IsKeywordLine(split(text)[k])

\* a closed sql fence: the first opener line o and the first closing line c after it
HasClosedFence(ls, o, c) ==
    /\ o \in DOMAIN ls /\ c \in DOMAIN ls /\ o < c
    /\ IsOpenerLine(ls[o]) /\ \A k \in 1..(o - 1) : ~ IsOpenerLine(ls[k])
    /\ IsClosingLine(ls[c]) /\ \A k \in (o + 1)..(c - 1) : ~ IsClosingLine(ls[k])

\* lines joined by newline, trimmed, with a terminating ';' (absent when empty)
Statement(ls) ==
    LET q == strip(join(ls))
    IN IF q = <<>> THEN None
       ELSE IF endswith(q, semicolon) THEN Some(q) ELSE Some(q \o semicolon)

\* a line of prose: blank, or a sentence ending in '.' or '!'
IsProseLine(l) ==
    strip(l) = <<>> \/ strip(l)[Len(strip(l))] \in {".", "!"}

Visited(p) == \E k \in DOMAIN path : path[k] = p

SuccessKeys == {"success", "user_question", "agent_response", "sql_query", "data",
                "data_preview", "row_count", "column_count", "timestamp"}

(***************************************************************************)
(* C1: for an input with a closed sql fence, the extraction returns        *)
(* exactly the lines between the opener and its closing fence (joined,     *)
(* trimmed, ';'-terminated); no line outside the fence is in the result.   *)
(***************************************************************************)
C1_FencedContentOnly ==
    xpc = "returned" =>
        \A o, c \in DOMAIN lines :
            HasClosedFence(lines, o, c) =>
                extracted = Statement(SubSeq(lines, o + 1, c - 1))

(***************************************************************************)
(* C2: the extraction returns absent, or a non-empty string without        *)
(* leading or trailing whitespace whose last character is ';'.             *)
(***************************************************************************)
C2_ExtractedWellFormed ==
    xpc = "returned" =>
        \/ extracted = None
        \/ /\ extracted.val # <<>>
           /\ strip(extracted.val) = extracted.val
           /\ extracted.val[Len(extracted.val)] = ";"

\* a result whose collected text had to be trimmed and terminated
C2_Witness ==
    /\ xpc = "returned"
    /\ extracted # None
    /\ strip(join(sql_lines)) # join(sql_lines)
    /\ ~ endswith(strip(join(sql_lines)), semicolon)

(***************************************************************************)
(* C3 as stated: whenever a present result r that starts with a leading    *)
(* keyword is extracted again, the second result is r, whether r came      *)
(* from a fenced block or from bare-SQL mode.                              *)
(***************************************************************************)
C3_IdempotentAnyMode ==
    (xpc = "returned" /\ prior # None /\ starts_with_sql_keyword(prior.val.output))
        => extracted = Some(prior.val.output)

(***************************************************************************)
(* C3 amended: for an input without a sql fence opener line, a present     *)
(* result r that starts with a leading keyword is extracted again to r.    *)
(***************************************************************************)
C3_IdempotentBare ==
    (/\ xpc = "returned"
     /\ prior # None
     /\ ~ HasOpenerLine(prior.val.input)
     /\ starts_with_sql_keyword(prior.val.output))
        => extracted = Some(prior.val.output)

\* a second extraction of a bare result of several lines that got its ';' appended
C3_Witness ==
    /\ xpc = "returned"
    /\ prior # None
    /\ ~ HasOpenerLine(prior.val.input)
    /\ starts_with_sql_keyword(prior.val.output)
    /\ Len(split(prior.val.output)) >= 2
    /\ ~ endswith(strip(prior.val.input), semicolon)
    /\ extracted = Some(prior.val.output)

(***************************************************************************)
(* C4: in bare-SQL mode the collection ends at the first collected line    *)
(* whose trimmed form ends with ';': no line of the result follows one.    *)
(***************************************************************************)
C4_SingleStatement ==
    (xpc = "returned" /\ ~ HasOpenerLine(response) /\ extracted # None) =>
        \A k \in 1..(Len(split(extracted.val)) - 1) :
            ~ endswith(strip(split(extracted.val)[k]), semicolon)

(***************************************************************************)
(* C5: an input with no sql fence opener line and no line starting with a  *)
(* leading keyword yields absent.                                          *)
(***************************************************************************)
C5_NoSqlNoResult ==
    (xpc = "returned" /\ ~ HasOpenerLine(response) /\ ~ HasKeywordLine(response))
        => extracted = None

\* such an input of several lines, one of them holding a continuation keyword
C5_Witness ==
    /\ xpc = "returned"
    /\ ~ HasOpenerLine(response)
    /\ ~ HasKeywordLine(response)
    /\ Len(lines) >= 3
    /\ \E k \in DOMAIN lines : has_continuation_keyword(strip(lines[k]))
    /\ extracted = None

(***************************************************************************)
(* C6: when the agent's answer is pure prose, whatever words its lines     *)
(* begin with, query returns success with sql_query and data absent and    *)
(* row_count 0, and the executor is never called.                          *)
(***************************************************************************)
C6_ProseYieldsNoSql ==
    (pc = "DONE" /\ \A k \in DOMAIN split(agent_output) : IsProseLine(split(agent_output)[k]))
        => /\ result.success = TRUE
           /\ result.sql_query = None
           /\ result.data = None
           /\ result.row_count = 0
           /\ exec_calls = 0

(***************************************************************************)
(* C7: if the agent call raises, query returns a record with success       *)
(* false, the failure description, the question and a timestamp, and no    *)
(* other field; neither extraction nor execution is attempted.             *)
(***************************************************************************)
C7_AgentFailureRecord ==
    pc = "AGENT_FAILED" =>
        /\ reply.raised
        /\ DOMAIN result = {"success", "user_question", "error", "timestamp"}
        /\ result.success = FALSE
        /\ result.error = reply.error
        /\ result.user_question = user_question
        /\ result.timestamp = clock
        /\ extract_calls = 0
        /\ exec_calls = 0
        /\ xpc = "idle"

C7_Witness ==
    /\ pc = "AGENT_FAILED"
    /\ user_question = "q2"
    /\ result.error = "authentication failed"

(***************************************************************************)
(* C8: if SQL was extracted and executing it raises, query returns         *)
(* success with sql_query and agent_response, data_execution_error set to  *)
(* the failure description, data absent, both counts 0, and no error.      *)
(***************************************************************************)
C8_ExecutionFailureRecord ==
    Visited("EXEC_FAILED") =>
        /\ reply.raised
        /\ result.success = TRUE
        /\ result.sql_query = extracted /\ extracted # None
        /\ result.agent_response = agent_output
        /\ DOMAIN result = SuccessKeys \cup {"data_execution_error"}
        /\ result.data_execution_error = reply.error
        /\ result.data = None
        /\ result.row_count = 0
        /\ result.column_count = 0

C8_Witness ==
    /\ pc = "DONE"
    /\ Visited("EXEC_FAILED")
    /\ result.data_execution_error = "relation does not exist"

(***************************************************************************)
(* C9: if the extracted SQL executes, data is the returned table (also     *)
(* when it is empty), row_count is its number of rows, column_count is its *)
(* number of columns when there is a row and 0 when there is none, and     *)
(* there is no data_execution_error.                                       *)
(***************************************************************************)
C9_ExecutionSuccessRecord ==
    Visited("EXECUTED") =>
        /\ ~ reply.raised
        /\ reply.frame # None
        /\ result.data = reply.frame
        /\ result.row_count = Len(reply.frame.val.index)
        /\ result.column_count =
               IF Len(reply.frame.val.index) >= 1 THEN reply.frame.val.columns ELSE 0
        /\ DOMAIN result = SuccessKeys

\* an empty result set that has columns
C9_Witness ==
    /\ pc = "DONE"
    /\ Visited("EXECUTED")
    /\ result.data # None
    /\ result.row_count = 0
    /\ result.data.val.columns = MaxCols

(***************************************************************************)
(* C10: every query call follows the per-call state machine: one agent     *)
(* call, extraction only after the agent returned, at most one execution   *)
(* and only of extracted SQL, no retry, and the call ends in AGENT_FAILED  *)
(* (success false) or in DONE (success true) via EXECUTED, EXEC_FAILED or  *)
(* SQL_ABSENT.                                                             *)
(***************************************************************************)
LifecyclePaths == {
    <<"START", "AGENT_CALLED", "AGENT_FAILED">>,
    <<"START", "AGENT_CALLED", "AGENT_OK", "EXTRACTING", "EXTRACTED",
      "SQL_FOUND", "EXECUTED", "DONE">>,
    <<"START", "AGENT_CALLED", "AGENT_OK", "EXTRACTING", "EXTRACTED",
      "SQL_FOUND", "EXEC_FAILED", "DONE">>,
    <<"START", "AGENT_CALLED", "AGENT_OK", "EXTRACTING", "EXTRACTED",
      "SQL_ABSENT", "DONE">> }

LifecycleStep ==
    /\ agent_calls = (IF Visited("AGENT_CALLED") THEN 1 ELSE 0)
    /\ extract_calls = (IF Visited("EXTRACTING") THEN 1 ELSE 0)
    /\ exec_calls = (IF Visited("EXECUTED") \/ Visited("EXEC_FAILED") THEN 1 ELSE 0)
    /\ extract_calls = 1 => Visited("AGENT_OK")
    /\ exec_calls = 1 => (Visited("EXTRACTED") /\ extracted # None)
    /\ \E p \in LifecyclePaths : Len(path) <= Len(p) /\ path = SubSeq(p, 1, Len(path))
    /\ pc \in Terminal => path \in LifecyclePaths
    /\ pc = "AGENT_FAILED" => result.success = FALSE
    /\ pc = "DONE" => result.success = TRUE

C10_Lifecycle == [] LifecycleStep /\ <>(pc \in Terminal)

\* a call that ended in DONE after a failed execution
C10_Witness ==
    /\ pc = "DONE"
    /\ path[Len(path) - 1] = "EXEC_FAILED"
    /\ agent_calls = 1 /\ extract_calls = 1 /\ exec_calls = 1

(***************************************************************************)
(* C11: in every returned record, error is present iff success is false;   *)
(* data_execution_error is present only with success and a present        *)
(* sql_query; data is present only with success and a present sql_query;   *)
(* data and data_execution_error are never both present.                   *)
(***************************************************************************)
HasKey(r, k) == k \in DOMAIN r
Present(r, k) == HasKey(r, k) /\ r[k] # None

C11_OptionalFieldGating ==
    pc \in Terminal =>
        /\ HasKey(result, "error") <=> (result.success = FALSE)
        /\ HasKey(result, "data_execution_error") =>
               (result.success = TRUE /\ Present(result, "sql_query"))
        /\ Present(result, "data") =>
               (result.success = TRUE /\ Present(result, "sql_query"))
        /\ ~ (Present(result, "data") /\ HasKey(result, "data_execution_error"))

\* a returned success record that carries data_execution_error
C11_Witness ==
    /\ pc = "DONE"
    /\ HasKey(result, "data_execution_error")
    /\ ~ HasKey(result, "error")
    /\ ~ Present(result, "data")

(***************************************************************************)
(* C12: the record alone tells the three successful outcomes apart: no SQL *)
(* found (sql_query absent), execution failed (sql_query present, data     *)
(* absent, data_execution_error present), executed with an empty result    *)
(* set (sql_query and data present, row_count 0, no data_execution_error). *)
(***************************************************************************)
LooksNoSql(r) == ~ Present(r, "sql_query")
LooksExecFailed(r) ==
    Present(r, "sql_query") /\ ~ Present(r, "data") /\ HasKey(r, "data_execution_error")
LooksExecutedEmpty(r) ==
    /\ Present(r, "sql_query") /\ Present(r, "data")
    /\ r.row_count = 0 /\ ~ HasKey(r, "data_execution_error")

C12_OutcomesDistinguishable ==
    pc = "DONE" =>
        /\ Visited("SQL_ABSENT") <=> LooksNoSql(result)
        /\ Visited("EXEC_FAILED") <=> LooksExecFailed(result)
        /\ (Visited("EXECUTED") /\ Len(reply.frame.val.index) = 0)
               <=> LooksExecutedEmpty(result)
        /\ ~ (LooksNoSql(result) /\ LooksExecFailed(result))
        /\ ~ (LooksNoSql(result) /\ LooksExecutedEmpty(result))
        /\ ~ (LooksExecFailed(result) /\ LooksExecutedEmpty(result))

\* a call that executed its SQL and got an empty result set
C12_Witness ==
    /\ pc = "DONE"
    /\ Visited("EXECUTED")
    /\ LooksExecutedEmpty(result)
    /\ result.data.val.columns = 1

(***************************************************************************)
(* C13: _extract_sql_from_response never raises; on an input it cannot     *)
(* process (an agent output that is not a string) it returns absent, and   *)
(* the record of a successful agent answer keeps success = true.           *)
(***************************************************************************)
C13_ExtractionNeverRaises ==
    /\ xpc # "raised"
    /\ (xpc = "returned" /\ ~ is_str(response)) => extracted = None
    /\ (pc \in Terminal /\ Visited("AGENT_OK")) =>
           (result.success = TRUE /\ ~ HasKey(result, "error"))
    /\ (pc \in Terminal /\ Visited("AGENT_OK") /\ ~ is_str(agent_output)) =>
           (pc = "DONE" /\ result.sql_query = None /\ exec_calls = 0)

\* the agent answered with something that is not a string and query returned
C13_Witness ==
    /\ pc = "DONE"
    /\ ~ is_str(agent_output)
    /\ extract_calls = 1
    /\ xpc = "returned"
    /\ result.success = TRUE
    /\ result.agent_response = non_str

(***************************************************************************)
(* C14: execute_raw_sql holds a connection only during one call: it is     *)
(* acquired at entry, the rows are materialised before it is released, it  *)
(* is released on the normal and on the exceptional exit, and none is held *)
(* outside the call.                                                       *)
(***************************************************************************)
C14_ConnectionScopedToCall ==
    /\ conn_held \in {0, 1}
    /\ conn_held = 1 <=> epc \in InsideWith
    /\ epc \in InsideWith => pc = "SQL_FOUND"
    /\ epc \in {"exit_return", "returned"} =>
           (cursor # None /\ reply.frame = cursor.val.frame /\ reply.frame # None)
    /\ epc \in {"returned", "raised"} => conn_held = 0
    /\ pc # "SQL_FOUND" => (epc = "idle" /\ conn_held = 0)

\* the call was left by an exception raised while the connection was held
C14_Witness ==
    /\ epc = "raised"
    /\ conn_held = 0
    /\ reply.raised
    /\ reply.error \in ExecErrors \cup {no_rows_error}

(***************************************************************************)
(* C17: when the executed statement returns no result set, execute_raw_sql *)
(* returns an empty table with an empty column list and does not fail.     *)
(***************************************************************************)
C17_NoResultSetGivesEmptyTable ==
    (cursor # None /\ ~ cursor.val.returns_rows /\ epc \in {"returned", "raised"}) =>
        (epc = "returned" /\ reply.frame = Some(DataFrame(0, 0)))

(***************************************************************************)
(* C16: the CLI loop and the Streamlit execute_query both display          *)
(* agent_response for every record with success = true, whether or not     *)
(* sql_query, data or data_execution_error is present.                     *)
(***************************************************************************)
Shows(w, v) == \E k \in DOMAIN shown : shown[k] = Item(w, v)

C16_ResponseAlwaysDisplayed ==
    (frontend # "none" /\ result.success = TRUE) =>
        Shows("agent_response", result.agent_response)

\* Streamlit has shown the response of a record without SQL and without data
C16_Witness ==
    /\ frontend = "streamlit"
    /\ result.success = TRUE
    /\ result.sql_query = None
    /\ result.data = None
    /\ Shows("agent_response", agent_output)

(***************************************************************************)
(* C18: for a bare input whose first line starts with a SQL leading        *)
(* keyword, whose following lines each contain a continuation keyword and  *)
(* in which no line ends with ';', the extraction returns all the lines    *)
(* joined by newline, in order, with exactly one ';' appended.             *)
(***************************************************************************)
EndsWithSemicolon(l) == endswith(strip(l), semicolon)

IsBareStatement(ls) ==
    /\ IsKeywordLine(ls[1])
    /\ \A k \in DOMAIN ls : ~ IsOpenerLine(ls[k]) /\ ~ EndsWithSemicolon(ls[k])
    /\ \A k \in 2..Len(ls) : \E c \in DOMAIN continuation_keywords :
           contains(upper(ls[k]), continuation_keywords[c])

\* as the claim states it: the lines are returned as they are
C18_BareLinesVerbatim ==
    (xpc = "returned" /\ is_str(response) /\ IsBareStatement(lines)) =>
        extracted = Some(join(lines) \o semicolon)

\* what holds: the joined text is trimmed before ';' is appended
C18_BareLinesTrimmed ==
    (xpc = "returned" /\ is_str(response) /\ IsBareStatement(lines)) =>
        /\ sql_lines = lines
        /\ extracted = Some(strip(join(lines)) \o semicolon)

\* three lines, outer whitespace on the first and on the last
C18_Witness ==
    /\ xpc = "returned"
    /\ IsBareStatement(lines)
    /\ Len(lines) = 3
    /\ lines[1] # strip(lines[1])
    /\ lines[3] # strip(lines[3])
    /\ extracted # None

(***************************************************************************)
(* C19: when the joined collected text starts with one of the five known   *)
(* prefixes, the prefix is removed and the remainder trimmed again; an     *)
(* input made of a known-prefix line followed by a bare statement line     *)
(* yields the statement alone.                                             *)
(***************************************************************************)
IsPrefix(p) == \E k \in DOMAIN prefixes_to_remove : prefixes_to_remove[k] = p
PrefixAt(q, k) == startswith(q, prefixes_to_remove[k])
FirstPrefix(q) == CHOOSE k \in DOMAIN prefixes_to_remove :
                      PrefixAt(q, k) /\ \A j \in 1..(k - 1) : ~ PrefixAt(q, j)
Remainder(q) == strip(SubSeq(q, Len(prefixes_to_remove[FirstPrefix(q)]) + 1, Len(q)))

C19_PrefixRemoved ==
    /\ (xpc = "returned" /\ sql_lines # <<>>
          /\ \E k \in DOMAIN prefixes_to_remove : PrefixAt(strip(join(sql_lines)), k)) =>
           LET q == strip(join(sql_lines))
           IN /\ (\A j \in (FirstPrefix(q) + 1)..Len(prefixes_to_remove) :
                      ~ PrefixAt(Remainder(q), j))
                  => extracted = Statement(<<Remainder(q)>>)
              /\ extracted # None =>
                     /\ Len(extracted.val) <= Len(Remainder(q)) + 1
                     /\ extracted.val # Statement(<<q>>).val
    /\ (xpc = "returned" /\ is_str(response) /\ Len(lines) = 2
          /\ IsPrefix(strip(lines[1])) /\ IsKeywordLine(lines[2])) =>
           extracted = Statement(<<lines[2]>>)

\* a fenced block whose first line is a known prefix
C19_Witness ==
    /\ xpc = "returned"
    /\ Len(sql_lines) = 2
    /\ sql_lines[1] = prefixes_to_remove[3]
    /\ extracted = Some(sql_lines[2])

(***************************************************************************)
(* C20: after a successful execution data_preview holds the first          *)
(* min(10, row_count) rows of data in their order; it is an empty table    *)
(* when data is empty; it is absent when no SQL was extracted or the       *)
(* execution failed.                                                       *)
(***************************************************************************)
Min(a, b) == IF a < b THEN a ELSE b
FirstRows(df, n) == SubSeq(df.index, 1, Min(n, Len(df.index)))

PreviewAbsentWithoutData ==
    (pc = "DONE" /\ (Visited("SQL_ABSENT") \/ Visited("EXEC_FAILED"))) =>
        result.data_preview = None

OwnRecord(l) ==
    IF l.pc = "AGENT_FAILED"
    THEN [success |-> FALSE, user_question |-> l.user_question,
          error |-> l.reply.error, timestamp |-> l.read_clock]
    ELSE LET sql == extract_sql_from_response(l.agent_output)
             base == [success |-> TRUE, user_question |-> l.user_question,
                      agent_response |-> l.agent_output, sql_query |-> sql,
                      timestamp |-> l.read_clock]
         IN IF sql = None
            THEN base @@ [data |-> None, data_preview |-> None,
                          row_count |-> 0, column_count |-> 0]
            ELSE IF l.reply.raised
            THEN base @@ [data |-> None, data_preview |-> None, row_count |-> 0,
                          column_count |-> 0, data_execution_error |-> l.reply.error]
            ELSE base @@ [data |-> l.reply.frame,
                          data_preview |-> Some(IF empty(l.reply.frame.val)
                                                THEN DataFrame(0, 0)
                                                ELSE l.reply.frame.val),
                          row_count |-> Len(l.reply.frame.val.index),
                          column_count |-> IF empty(l.reply.frame.val) THEN 0
                                           ELSE l.reply.frame.val.columns]

Returned(l) == l.pc \in {"AGENT_FAILED", "DONE"}

C15_CallsIndependent ==
    /\ self_obj = agent_attributes
    /\ \A c \in DOMAIN calls : Returned(calls[c]) => calls[c].result = OwnRecord(calls[c])
    /\ \A c, d \in DOMAIN calls :
           (/\ Returned(calls[c]) /\ Returned(calls[d])
            /\ calls[c].user_question = calls[d].user_question
            /\ calls[c].agent_output = calls[d].agent_output
            /\ calls[c].reply = calls[d].reply
            /\ calls[c].read_clock = calls[d].read_clock)
           => calls[c].result = calls[d].result

\* both calls returned, one with data and one with a failed execution, and
\* the second agent answer arrived before the first call extracted
C15_Witness ==
    /\ \A c \in Callers : calls[c].pc = "DONE"
    /\ calls["caller1"].result.data # None
    /\ "data_execution_error" \in DOMAIN calls["caller2"].result
    /\ calls["caller1"].read_clock = 2
    /\ calls["caller2"].read_clock = 2

(***************************************************************************)
(* C21: during the scan of any input in_code_block and in_sql_block are    *)
(* never both true, and bare-SQL mode is not active while the lines of a   *)
(* fenced block are captured.                                              *)
(***************************************************************************)
C21_ModesExclusive ==
    xpc \in {"loop", "cleanup"} => ~ (in_code_block /\ in_sql_block)

(***************************************************************************)
(* C22: fenced-block mode is entered exactly when the trimmed line equals  *)
(* the fence marker followed by the tag sql in any letter case; a line     *)
(* that begins with such an opener followed by other text does not enter.  *)
(***************************************************************************)
IsSqlTagAnyCase(l) == upper(strip(l)) = upper(fence_sql_lower)

C22_OpenerAnyCaseExact ==
    [][(xpc = "loop" /\ i' = i + 1 /\ ~ in_code_block) =>
           (in_code_block' <=> IsSqlTagAnyCase(lines[i]))]_vars

(***************************************************************************)
(* C23: the first fenced sql block wins: when its closing fence is reached *)
(* the scan stops, so no line after the closing fence contributes, and the *)
(* lines inside the fence are captured whatever rules 4a-4e would say (a   *)
(* line ending with ';' inside the fence does not end the collection).     *)
(***************************************************************************)
\* the last n elements of a sequence
LastN(s, n) == SubSeq(s, Len(s) - n + 1, Len(s))
NotOpener(l) == ~ IsOpenerLine(l)

C24_TimestampTakenLast ==
    pc = "DONE" => result.timestamp = clock

(***************************************************************************)
(* C25: in bare-SQL mode a continuation line that does not end with ';',   *)
(* is not blank or a '--' comment, has no continuation keyword, has none   *)
(* of the punctuation characters ( ) , = < > ' " and consists only of      *)
(* alphanumeric characters and spaces ends the collection (rule 4d) and is *)
(* not appended.                                                           *)
(***************************************************************************)
\* a line rules 4a-4c and the punctuation test let through to the last test
ReachesRule4d(l) ==
    /\ strip(l) # <<>>
    /\ ~ IsKeywordLine(l) /\ ~ IsOpenerLine(l)
    /\ ~ EndsWithSemicolon(l)
    /\ ~ startswith(strip(l), comment_marker)
    /\ ~ \E c \in DOMAIN continuation_keywords :
           contains(upper(strip(l)), continuation_keywords[c])
    /\ \A k \in DOMAIN l : l[k] \notin sql_punctuation

OnlyAlnumAndSpaces(l) == \A k \in DOMAIN l : l[k] \in AlnumChars \cup {" ", "\t"}

\* the step that scans a line in bare-SQL mode
BareStep ==
    xpc = "loop" /\ i' = i + 1 /\ in_sql_block /\ ~ in_code_block /\ ReachesRule4d(lines[i])

\* as the claim states it: the alphanumeric line ends the collection
C25_AlnumLineTerminates ==
    [][(BareStep /\ OnlyAlnumAndSpaces(lines[i])) =>
           (sql_lines' = sql_lines /\ xpc' = "cleanup")]_vars

\* what holds: the alphanumeric line is appended and the scan goes on; the
\* line that ends the collection is the one with some other character
C25_AlnumLineAppended ==
    [][BareStep =>
           IF OnlyAlnumAndSpaces(lines[i])
           THEN /\ sql_lines' = Append(sql_lines, lines[i])
                /\ xpc' = (IF i = Len(lines) THEN "cleanup" ELSE "loop")
           ELSE /\ sql_lines' = sql_lines
                /\ xpc' = "cleanup"]_vars

\* a bare table name has just been appended after a keyword line
C25_Witness ==
    /\ xpc \in {"loop", "cleanup"}
    /\ i > 2
    /\ in_sql_block /\ ~ in_code_block
    /\ ReachesRule4d(lines[i - 1]) /\ OnlyAlnumAndSpaces(lines[i - 1])
    /\ Len(sql_lines) >= 2
    /\ sql_lines[Len(sql_lines)] = lines[i - 1]
    /\ IsKeywordLine(sql_lines[Len(sql_lines) - 1])

(***************************************************************************)
(* C26: for an input without a sql fence opener line, a present result     *)
(* begins, in any letter case, with one of the eight SQL leading keywords, *)
(* and the removal of narrative prefixes leaves the text unchanged.        *)
(***************************************************************************)
BeginsWithLeadingKeyword(q) ==
    \E k \in DOMAIN sql_keywords :
        /\ Len(q) >= Len(sql_keywords[k])
        /\ upper(SubSeq(q, 1, Len(sql_keywords[k]))) = sql_keywords[k]

C26_BareResultStartsWithKeyword ==
    (xpc = "returned" /\ is_str(response) /\ extracted # None
       /\ \A k \in DOMAIN lines : ~ IsOpenerLine(lines[k])) =>
        /\ BeginsWithLeadingKeyword(extracted.val)
        /\ \A k \in DOMAIN prefixes_to_remove : ~ PrefixAt(strip(join(sql_lines)), k)
        /\ extracted = Statement(sql_lines)

\* narrative first, then the statement: the result is the statement
C26_Witness ==
    /\ xpc = "returned"
    /\ Len(lines) >= 2
    /\ \A k \in DOMAIN lines : ~ IsOpenerLine(lines[k])
    /\ IsPrefix(lines[1])
    /\ extracted # None
    /\ BeginsWithLeadingKeyword(extracted.val)

(***************************************************************************)
(* C27: in both front ends the fallback branch, which runs                 *)
(* result['sql_query'] through execute_raw_sql again, is reached exactly   *)
(* when query returned success = true with data_execution_error set; in    *)
(* Streamlit a statement whose execution failed inside query is executed a *)
(* second time, and a statement that executed is never executed twice.     *)
(***************************************************************************)
C27_FallbackAfterFailedExecution ==
    frontend # "none" =>
        /\ fallback # "no" <=>
               (result.success = TRUE /\ HasKey(result, "data_execution_error"))
        /\ frontend = "streamlit" => fallback # "reached"
        /\ (frontend = "streamlit" /\ Visited("EXEC_FAILED")) => exec_calls = 2
        /\ Visited("EXECUTED") => (exec_calls = 1 /\ fallback = "no")
        /\ exec_calls = (IF Visited("EXECUTED") \/ Visited("EXEC_FAILED") THEN 1 ELSE 0)
                        + (IF fallback = "called" THEN 1 ELSE 0)

\* Streamlit ran the failed statement again, and this time it returned rows
C27_Witness ==
    /\ frontend = "streamlit"
    /\ fallback = "called"
    /\ HasKey(result, "data_execution_error")
    /\ exec_calls = 2
    /\ ~ reply.raised
    /\ Shows("data", reply.frame.val)

\* C28: every consumer of a record subscripts only keys the record has,
\* for the record just returned and for every record kept in the history,
\* whatever questions were asked and however often the history was cleared,
\* so no consumer has raised a KeyError
C28_ConsumersIndexPresentKeys ==
    /\ key_error = FALSE
    /\ result # None =>
          /\ display_keys(result) \subseteq DOMAIN result
          /\ test_agent_keys(result) \subseteq DOMAIN result
          /\ history_keys(result) \subseteq DOMAIN result
    /\ \A k \in DOMAIN query_history :
          history_keys(query_history[k]) \subseteq DOMAIN query_history[k]

\* the history was displayed holding a failure record and a success record,
\* after it had been cleared at least once
C28_Witness ==
    /\ frontend = "history"
    /\ Len(query_history) = 2
    /\ clock > Len(query_history)
    /\ \E k \in DOMAIN query_history : ~ query_history[k].success
    /\ \E k \in DOMAIN query_history :
          query_history[k].success /\ "data" \in DOMAIN query_history[k]

\* the lower-cased text of a line without its surrounding whitespace
Command(line) == lower(strip(line))

\* C29: in the CLI, once the agent was constructed, agent.query is called
\* only for lines that are, trimmed, non-empty and, in lower case, none of
\* quit, exit, q and help; an exception raised while a question is processed
\* leaves the loop at its prompt; after the loop has ended close_connection
\* has been called exactly once, and not before, and no query is issued any
\* more; when the construction failed close_connection is never called
C29_CliLoopDiscipline ==
    /\ [](/\ \A k \in DOMAIN query_log :
                /\ strip(query_log[k].typed) # <<>>
                /\ Command(query_log[k].typed)
                      \notin {<<"q", "u", "i", "t">>, <<"e", "x", "i", "t">>, <<"q">>,
                               <<"h", "e", "l", "p">>}
           /\ (query_log # <<>> => agent_bound)
           /\ (cli_pc = "exited" /\ agent_bound => close_calls = 1)
           /\ (cli_pc # "exited" => close_calls = 0)
           /\ (~ agent_bound => close_calls = 0))
    /\ [][/\ (cli_pc = "processing" /\ query_log'[Len(query_log')].outcome = "Exception")
                => cli_pc' = "prompt"
           /\ (cli_pc \in {"finally", "exited"} => query_log' = query_log)]_vars

\* the loop went on after an exception in the first question, a second
\* question was asked, and then the loop ended and the connection was closed
C29_Witness ==
    /\ cli_pc = "exited"
    /\ close_calls = 1
    /\ Len(query_log) = 2
    /\ query_log[1].outcome = "Exception"

====
